---- MODULE Spec2Model ----
(***************************************************************************)
(* Model of the archive scanning scripts: jar_text_scanner.py,             *)
(* jar_package_scanner.py and java_text_searcher.py.                       *)
(*                                                                         *)
(* Python str and bytes values are sequences of code points / byte values. *)
(* A Python list is a sequence, a tuple is a tuple, and a dict (which      *)
(* keeps insertion order) is a sequence of [k, v] records with distinct    *)
(* keys.  None is the empty tuple.                                         *)
(***************************************************************************)
EXTENDS Integers, Sequences, FiniteSets, TLC

\* ------------------------------------------------------------------------
\* Bounds of the model
\* ------------------------------------------------------------------------

\* longest content of an archive entry, in bytes
MaxContentLen == 2

\* largest value of --limit
MaxLimit == 3

\* largest value of --total-limit
MaxTotalLimit == 3

\* ------------------------------------------------------------------------
\* Python built-ins on str / bytes / list
\* ------------------------------------------------------------------------

None == <<>>

Range(s) == {s[i] : i \in DOMAIN s}

Min(a, b) == IF a <= b THEN a ELSE b

Max(a, b) == IF a >= b THEN a ELSE b

\* s[lo:hi] with 0 <= lo, 0-based, end exclusive
Slice(s, lo, hi) ==
    IF hi <= lo THEN <<>> ELSE SubSeq(s, lo + 1, Min(hi, Len(s)))

\* str.endswith / bytes.endswith
EndsWith(s, suf) ==
    /\ Len(suf) <= Len(s)
    /\ SubSeq(s, Len(s) - Len(suf) + 1, Len(s)) = suf

\* s.find(sub): the lowest 0-based index where sub occurs, -1 if none
Find(s, sub) ==
    LET hits == {i \in 0..(Len(s) - Len(sub)) : SubSeq(s, i + 1, i + Len(sub)) = sub}
    IN  IF hits = {} THEN -1 ELSE CHOOSE i \in hits : \A j \in hits : i <= j

\* sub in s
Contains(s, sub) == Find(s, sub) >= 0

\* Python values of different types are never equal; where a comparison can
\* mix types the values carry their type
StrVal(s) == [type |-> "str", val |-> s]

TupleVal(t) == [type |-> "tuple", val |-> t]

PyEq(a, b) == a.type = b.type /\ a.val = b.val

\* x in list (element membership, by Python equality)
PyIn(x, list) == \E i \in DOMAIN list : PyEq(list[i], x)

StrVals(list) == [i \in DOMAIN list |-> StrVal(list[i])]

TupleVals(list) == [i \in DOMAIN list |-> TupleVal(list[i])]

\* str.lower on the ASCII range
LowerChar(c) == IF c >= 65 /\ c <= 90 THEN c + 32 ELSE c

Lower(s) == [i \in DOMAIN s |-> LowerChar(s[i])]

\* the characters str.strip removes
IsSpace(c) == c \in {9, 10, 11, 12, 13, 28, 29, 30, 31, 32, 133, 160}

\* str.strip()
Strip(s) ==
    LET keep == {i \in DOMAIN s : ~IsSpace(s[i])}
    IN  IF keep = {} THEN <<>>
        ELSE SubSeq(s, CHOOSE i \in keep : \A j \in keep : i <= j,
                       CHOOSE i \in keep : \A j \in keep : i >= j)

\* the line boundaries of str.splitlines (\r\n counts as one)
IsLineBreak(c) == c \in {10, 11, 12, 13, 28, 29, 30, 133}

RECURSIVE SplitFrom(_, _, _)
\* lines of s from position i on, cur being the line read so far
SplitFrom(s, i, cur) ==
    IF i > Len(s) THEN (IF cur = <<>> THEN <<>> ELSE <<cur>>)
    ELSE IF IsLineBreak(s[i])
         THEN LET skip == IF s[i] = 13 /\ i < Len(s) /\ s[i + 1] = 10 THEN 2 ELSE 1
              IN  <<cur>> \o SplitFrom(s, i + skip, <<>>)
         ELSE SplitFrom(s, i + 1, Append(cur, s[i]))

\* s.split('\n')
SplitLines_split(s) == IF s = <<>> THEN << <<>> >> ELSE SplitFrom(s, 1, <<>>)

\* str.splitlines()
SplitLines(s) == SplitFrom(s, 1, <<>>)

\* bytes.decode('utf-8', errors='ignore') on contents made of ASCII bytes and
\* of bytes that are never part of a valid UTF-8 sequence (0xF8..0xFF): the
\* invalid bytes are dropped
IsAscii(b) == b < 128

DecodeUtf8Ignore(content) == SelectSeq(content, IsAscii)

\* str.encode('utf-8') of an ASCII string
EncodeUtf8(s) == s

RECURSIVE Digits(_)
\* str(n) for n >= 0
Digits(n) == IF n < 10 THEN <<48 + n>> ELSE Digits(n \div 10) \o <<48 + (n % 10)>>

HexDigit(d) == IF d < 10 THEN 48 + d ELSE 87 + d

\* one byte inside the repr of a bytes object
ReprByte(b) ==
    IF b = 10 THEN <<92, 110>>
    ELSE IF b = 13 THEN <<92, 114>>
    ELSE IF b = 9 THEN <<92, 116>>
    ELSE IF b = 92 THEN <<92, 92>>
    ELSE IF b = 39 THEN <<92, 39>>
    ELSE IF b >= 32 /\ b < 127 THEN <<b>>
    ELSE <<92, 120, HexDigit(b \div 16), HexDigit(b % 16)>>

RECURSIVE ReprBody(_)
ReprBody(bs) == IF bs = <<>> THEN <<>> ELSE ReprByte(Head(bs)) \o ReprBody(Tail(bs))

\* str(b) of a bytes object b: b'...'
BytesRepr(bs) == <<98, 39>> \o ReprBody(bs) \o <<39>>

RECURSIVE Join(_, _)
\* sep.join(parts)
Join(sep, parts) ==
    IF parts = <<>> THEN <<>>
    ELSE IF Len(parts) = 1 THEN parts[1]
    ELSE parts[1] \o sep \o Join(sep, Tail(parts))

\* s < t for str (lexicographic by code point)
RECURSIVE StrLess(_, _)
StrLess(s, t) ==
    IF t = <<>> THEN FALSE
    ELSE IF s = <<>> THEN TRUE
    ELSE IF Head(s) # Head(t) THEN Head(s) < Head(t)
    ELSE StrLess(Tail(s), Tail(t))

RECURSIVE SortedSet(_)
\* sorted(S) for a set S of str
SortedSet(S) ==
    IF S = {} THEN <<>>
    ELSE LET m == CHOOSE x \in S : \A y \in S \ {x} : StrLess(x, y)
         IN  <<m>> \o SortedSet(S \ {m})

\* sorted(list) for a list of distinct str
Sorted(list) == SortedSet(Range(list))

\* list.index(x), 0-based
IndexOf(list, x) == (CHOOSE i \in DOMAIN list : list[i] = x /\ \A j \in 1..(i - 1) : list[j] # x) - 1

\* dict operations; a dict is a sequence of [k, v] with distinct keys
DictKeys(d) == [i \in DOMAIN d |-> d[i].k]

DictHas(d, key) == \E i \in DOMAIN d : d[i].k = key

DictGet(d, key) == d[CHOOSE i \in DOMAIN d : d[i].k = key].v

\* d[key] = val
DictSet(d, key, val) ==
    IF DictHas(d, key)
    THEN [i \in DOMAIN d |-> IF d[i].k = key THEN [k |-> key, v |-> val] ELSE d[i]]
    ELSE Append(d, [k |-> key, v |-> val])

RECURSIVE SumLens(_)
\* the number of records in a dict of lists
SumLens(d) == IF d = <<>> THEN 0 ELSE Len(Head(d).v) + SumLens(Tail(d))

\* ------------------------------------------------------------------------
\* jar_text_scanner.py: scan_jar_file_for_text
\*
\* An archive on disk is [valid, entries]: valid is whether zipfile.ZipFile
\* opens it; entries is the member list in namelist() order, each member
\* [name, content, readable], readable being whether jar.open/read succeed.
\* ------------------------------------------------------------------------

text_extensions ==
    << <<46, 106, 97, 118, 97>>,                                   \* '.java'
       <<46, 99, 108, 97, 115, 115>>,                              \* '.class'
       <<46, 120, 109, 108>>,                                      \* '.xml'
       <<46, 112, 114, 111, 112, 101, 114, 116, 105, 101, 115>>,   \* '.properties'
       <<46, 116, 120, 116>>,                                      \* '.txt'
       <<46, 109, 100>>,                                           \* '.md'
       <<46, 121, 109, 108>>,                                      \* '.yml'
       <<46, 121, 97, 109, 108>>,                                  \* '.yaml'
       <<46, 106, 115, 111, 110>>,                                 \* '.json'
       <<46, 104, 116, 109, 108>>,                                 \* '.html'
       <<46, 99, 115, 115>>,                                       \* '.css'
       <<46, 106, 115>>,                                           \* '.js'
       <<46, 106, 115, 112>>,                                      \* '.jsp'
       <<46, 99, 111, 110, 102, 105, 103>>,                        \* '.config'
       <<46, 105, 110, 105>>,                                      \* '.ini'
       <<46, 99, 111, 110, 102>>,                                  \* '.conf'
       <<46, 77, 70>>,                                             \* '.MF'
       <<46, 115, 113, 108>>  >>                                   \* '.sql'

DotClass == <<46, 99, 108, 97, 115, 115>>

\* bytes of context shown on each side of a binary match
ContextBytes == 20

\* shortest run of bytes reported as a string literal
MinLiteralLen == 3

\* number of string literals shown
MaxLiterals == 20

\* the filter by extension, applied in binary mode too
is_target_file_by_extension(file_name, binary_mode) ==
    \/ \E i \in DOMAIN text_extensions : EndsWith(file_name, text_extensions[i])
    \/ ~Contains(file_name, <<46>>)

\* line 65
is_target_file(file_name, binary_mode) ==
    IF binary_mode THEN TRUE
    ELSE \/ \E i \in DOMAIN text_extensions : EndsWith(file_name, text_extensions[i])
         \/ ~Contains(file_name, <<46>>)

RECURSIVE RunsFrom(_, _, _)
\* maximal runs of bytes 0x01..0x7F from position i on, cur being the run so far
RunsFrom(content, i, cur) ==
    LET done == IF Len(cur) >= MinLiteralLen THEN <<cur>> ELSE <<>>
    IN  IF i > Len(content) THEN done
        ELSE IF content[i] >= 1 /\ content[i] <= 127
             THEN RunsFrom(content, i + 1, Append(cur, content[i]))
             ELSE done \o RunsFrom(content, i + 1, <<>>)

\* re.findall(b'[\x01-\x7F]{3,}', content)
string_literals(content) == RunsFrom(content, 1, <<>>)

\* the records of one entry in binary search mode
binary_matches(file_name, jar_path, content, search_bytes, deep_inspection) ==
    IF Contains(content, search_bytes)
    THEN LET match_pos == Find(content, search_bytes)
             start_pos == Max(0, match_pos - ContextBytes)
             end_pos == Min(Len(content), match_pos + Len(search_bytes) + ContextBytes)
             context == Slice(content, start_pos, end_pos)
             string_matches == string_literals(content)
             shown == Slice(string_matches, 0, MaxLiterals)
             context_str ==
                 IF EndsWith(file_name, DotClass) /\ deep_inspection /\ string_matches # <<>>
                 THEN <<83, 116, 114, 105, 110, 103, 32, 108, 105, 116, 101, 114, 97, 108, 115, 58, 32>>
                      \o Join(<<32, 124, 32>>, [i \in DOMAIN shown |-> BytesRepr(shown[i])])
                 ELSE BytesRepr(context)
         IN  << <<file_name, jar_path, 0,
                  <<66, 105, 110, 97, 114, 121, 32, 109, 97, 116, 99, 104, 32, 97, 116,
                    32, 112, 111, 115, 105, 116, 105, 111, 110, 32>>
                  \o Digits(match_pos) \o <<58, 32>> \o context_str>> >>
    ELSE <<>>

\* whether a line matches the search text
line_matches(line, search_text, case_sensitive) ==
    IF case_sensitive THEN Contains(line, search_text)
    ELSE Contains(Lower(line), Lower(search_text))

RECURSIVE text_matches_from(_, _, _, _, _, _)
\* the records of lines[line_num..] of one entry in text search mode
text_matches_from(file_name, jar_path, lines, line_num, search_text, case_sensitive) ==
    IF line_num > Len(lines) THEN <<>>
    ELSE (IF line_matches(lines[line_num], search_text, case_sensitive)
          THEN << <<file_name, jar_path, line_num, Strip(lines[line_num])>> >>
          ELSE <<>>)
         \o text_matches_from(file_name, jar_path, lines, line_num + 1, search_text, case_sensitive)

\* the records one entry adds to results (none when it is skipped or unreadable)
scan_entry(entry, jar_path, search_text, case_sensitive, binary_mode, deep_inspection) ==
    IF ~is_target_file(entry.name, binary_mode) THEN <<>>
    ELSE IF ~entry.readable THEN <<>>
    ELSE IF binary_mode
         THEN binary_matches(entry.name, jar_path, entry.content,
                             EncodeUtf8(search_text), deep_inspection)
         ELSE text_matches_from(entry.name, jar_path,
                                SplitLines(DecodeUtf8Ignore(entry.content)), 1,
                                search_text, case_sensitive)

RECURSIVE scan_entries_abort(_, _, _, _, _, _)
\* the loop without the handler of lines 103-105: the failure to read an entry
\* ends the loop, and the handler of line 106 returns the records so far
scan_entries_abort(entries, jar_path, search_text, case_sensitive, binary_mode, deep_inspection) ==
    IF entries = <<>> THEN <<>>
    ELSE IF is_target_file(Head(entries).name, binary_mode) /\ ~Head(entries).readable THEN <<>>
    ELSE scan_entry(Head(entries), jar_path, search_text, case_sensitive, binary_mode, deep_inspection)
         \o scan_entries_abort(Tail(entries), jar_path, search_text, case_sensitive, binary_mode, deep_inspection)

RECURSIVE scan_entries(_, _, _, _, _, _)
\* lines 63-105: the loop over the entries, in the order of namelist()
scan_entries(entries, jar_path, search_text, case_sensitive, binary_mode, deep_inspection) ==
    IF entries = <<>> THEN <<>>
    ELSE scan_entry(Head(entries), jar_path, search_text, case_sensitive, binary_mode, deep_inspection)
         \o scan_entries(Tail(entries), jar_path, search_text, case_sensitive, binary_mode, deep_inspection)

\* scan_jar_file_for_text(jar_path, ...) on the archive jar found at jar_path
scan_jar_file_for_text(jar_path, jar, search_text, case_sensitive, binary_mode, deep_inspection) ==
    IF ~jar.valid THEN <<>>
    ELSE scan_entries(jar.entries, jar_path, search_text, case_sensitive, binary_mode, deep_inspection)

\* How a coroutine ends: it returns a value, or an exception leaves it.
Returned(value) == [raised |-> FALSE, value |-> value]

Raised == [raised |-> TRUE, value |-> None]

\* the coroutine without the handler of lines 106-107: BadZipFile leaves it
scan_text_task_uncaught(jar_path, jar, search_text, case_sensitive, binary_mode, deep_inspection) ==
    IF ~jar.valid THEN Raised
    ELSE Returned(scan_jar_file_for_text(jar_path, jar, search_text, case_sensitive,
                                         binary_mode, deep_inspection))

\* the coroutine scan_jar_file_for_text: the handlers of lines 103 and 106
\* catch every Exception, so it always returns results
scan_text_task(jar_path, jar, search_text, case_sensitive, binary_mode, deep_inspection) ==
    Returned(scan_jar_file_for_text(jar_path, jar, search_text, case_sensitive,
                                    binary_mode, deep_inspection))

\* ------------------------------------------------------------------------
\* State
\* ------------------------------------------------------------------------

VARIABLES
    prog,               \* the script that runs: "text", "pkg" or "java"
    pc,                 \* where the script's main is
    args,               \* the parsed command line
    fs,                 \* the file system: [walk, file]; walk is the order in
                        \* which os.walk lists the files, file maps a path to
                        \* what is stored there
    jar_files,          \* process_jar_files: the enumerated archives
    tasks,              \* process_jar_files: one [jar_path, state, result] per task
    results,            \* process_jar_files: what asyncio.gather returned
    idx,                \* loop index of the loop main or process_jar_files is in
    jar_to_matches,     \* jar_text_scanner: dict jar path -> list of records
    package_to_jars,    \* jar_package_scanner: dict package name -> list of jar paths
    jar_to_packages,    \* jar_package_scanner: dict jar path -> list of package names
    java_files,         \* java_text_searcher: self.java_files
    java_results,       \* java_text_searcher: self.results
    total_matches,      \* jar_text_scanner main
    displayed_matches,  \* jar_text_scanner main
    total_jar_count,    \* jar_text_scanner main
    out,                \* the lines printed to standard output
    exit_status         \* the exit status of the process, -1 while it runs

vars == <<prog, pc, args, fs, jar_files, tasks, results, idx, jar_to_matches,
          package_to_jars, jar_to_packages, java_files, java_results,
          total_matches, displayed_matches, total_jar_count, out, exit_status>>

pkgVars == <<package_to_jars, jar_to_packages>>

javaVars == <<java_files, java_results>>

\* the variables of the JAR text scanner's main
textVars == <<jar_to_matches, total_matches, displayed_matches, total_jar_count>>

coordVars == <<jar_files, tasks, results>>

reportVars == <<total_matches, displayed_matches, total_jar_count>>

\* ------------------------------------------------------------------------
\* The inputs the model draws from
\* ------------------------------------------------------------------------

\* bytes an entry's content is made of: 'a', 'A', '\n' and the invalid 0xFF
ContentBytes == {97, 65, 10, 255}

RECURSIVE SeqsUpTo(_, _)
\* all sequences over S of length at most n
SeqsUpTo(S, n) ==
    IF n = 0 THEN {<<>>}
    ELSE LET shorter == SeqsUpTo(S, n - 1)
         IN  shorter \cup {Append(q, x) : q \in shorter, x \in S}

\* all orders of all subsets of S
Orders(S) == {q \in SeqsUpTo(S, Cardinality(S)) : \A i, j \in DOMAIN q : i # j => q[i] # q[j]}

Entry(name, content, readable) == [name |-> name, content |-> content, readable |-> readable]

Archive(valid, entries) == [valid |-> valid, entries |-> entries]

x_txt == <<120, 46, 116, 120, 116>>                     \* 'x.txt'

e_txt == <<101, 46, 116, 120, 116>>                     \* 'e.txt'

u_txt == <<117, 46, 116, 120, 116>>                     \* 'u.txt'

x_png == <<120, 46, 112, 110, 103>>                     \* 'x.png'

manifest == <<77, 65, 78, 73, 70, 69, 83, 84>>          \* 'MANIFEST'

X_class == <<112, 47, 88, 46, 99, 108, 97, 115, 115>>   \* 'p/X.class'

a_jar == <<97, 46, 106, 97, 114>>                       \* 'a.jar'

b_jar == <<98, 46, 106, 97, 114>>                       \* 'b.jar'

C_JAR == <<67, 46, 74, 65, 82>>                         \* 'C.JAR'

n_txt == <<110, 46, 116, 120, 116>>                     \* 'n.txt'

z_jar == <<122, 46, 106, 97, 114>>                      \* 'z.jar'

\* an archive whose central directory is broken: ZipFile raises BadZipFile
CorruptJar == Archive(FALSE, <<Entry(x_txt, <<97>>, TRUE)>>)

\* archives of a scanned directory: corrupt, without a match, with one match
\* and with three matches for the search text 'a'
DirArchives ==
    { CorruptJar,
      Archive(TRUE, <<Entry(x_txt, <<98, 10, 98>>, TRUE)>>),
      Archive(TRUE, <<Entry(x_png, <<97>>, TRUE), Entry(x_txt, <<98, 10, 65>>, TRUE)>>),
      Archive(TRUE, <<Entry(x_txt, <<97, 10, 98, 10, 97>>, TRUE),
                      Entry(manifest, <<32, 97, 32>>, TRUE)>>) }

DirFiles == {a_jar, b_jar, C_JAR, n_txt}

\* the walks of a scanned directory: any order of any three of the files
DirWalks == {w \in Orders(DirFiles) : Len(w) <= 3}

\* what is stored at n.txt: not an archive
PlainFile == Archive(FALSE, <<>>)

\* every walk, with every choice of archive at each .jar path
DirFileSystems ==
    UNION { { [walk |-> w, file |-> f] :
                f \in { g \in [Range(w) -> DirArchives \cup {PlainFile}] :
                          \A q \in Range(w) : (g[q] = PlainFile) <=> (q = n_txt) } } :
            w \in DirWalks }

\* entries with every content up to MaxContentLen, and unreadable ones
GenEntries ==
    { Entry(n, c, TRUE) : n \in {x_txt, x_png}, c \in SeqsUpTo(ContentBytes, MaxContentLen) }
    \cup { Entry(n, <<97>>, FALSE) : n \in {x_txt, x_png} }

\* entries the archives with several members are made of
PoolEntries ==
    { Entry(e_txt, <<>>, TRUE),
      Entry(x_txt, <<97, 10, 65>>, TRUE),
      Entry(u_txt, <<97>>, FALSE),
      Entry(x_png, <<97, 97>>, TRUE),
      Entry(X_class, <<97, 65, 97, 255, 97, 97, 97, 97>>, TRUE) }

\* member lists of two or three entries with distinct names
PoolLists == {es \in Orders(PoolEntries) : Len(es) \in {2, 3}}

\* the archives named with -j
SingleArchives ==
    { CorruptJar }
    \cup { Archive(TRUE, <<e>>) : e \in GenEntries }
    \cup { Archive(TRUE, es) : es \in PoolLists }

SearchTexts == { <<>>, <<97>>, <<65>> }

\* --limit and --total-limit when the command line does not give them
DefaultLimit == 10

DefaultTotalLimit == 1000

TextArgs(search_text, limit, total_limit, case_sensitive, binary, jar, deep) ==
    [search_text |-> search_text, limit |-> limit, total_limit |-> total_limit,
     case_sensitive |-> case_sensitive, binary |-> binary, jar |-> jar, deep |-> deep]

\* command lines that scan a directory
TextDirArgs ==
    { TextArgs(<<97>>, l, t, FALSE, FALSE, None, FALSE) :
          l \in 0..MaxLimit, t \in 0..MaxTotalLimit }

\* command lines that name one archive
TextSingleArgs ==
    { TextArgs(st, DefaultLimit, DefaultTotalLimit, m[1], m[2], a_jar, m[3]) :
          st \in SearchTexts,
          m \in { <<FALSE, FALSE, FALSE>>, <<TRUE, FALSE, FALSE>>,
                  <<FALSE, TRUE, FALSE>>, <<FALSE, TRUE, TRUE>> } }

\* os.path.exists
Exists(path) == path \in DOMAIN fs.file

InitText ==
    /\ prog = "text"
    /\ \/ args \in TextDirArgs /\ fs \in DirFileSystems
       \/ /\ args \in TextSingleArgs
          /\ fs \in { [walk |-> <<a_jar>>, file |-> [p \in {a_jar} |-> a]] : a \in SingleArchives }
       \/ /\ args \in { TextArgs(<<97>>, DefaultLimit, DefaultTotalLimit, FALSE, FALSE, z_jar, FALSE) }
          /\ fs \in { [walk |-> <<a_jar>>, file |-> [p \in {a_jar} |-> a]] : a \in DirArchives }

\* ------------------------------------------------------------------------
\* jar_text_scanner.py: find_jar_files, process_jar_files
\* ------------------------------------------------------------------------

DotJar == <<46, 106, 97, 114>>

\* find_jar_files(directory): the files os.walk lists whose lower-cased name
\* ends in .jar, in the order of the walk
IsJarName(file) == EndsWith(Lower(file), DotJar)

find_jar_files(walk) == SelectSeq(walk, IsJarName)

\* the line a scan task prints when it catches the failure to open the archive
ScanErrors(jar_path, jar, outcome) ==
    IF jar.valid \/ outcome.raised THEN <<>>
    ELSE <<[kind |-> "error_processing", jar_path |-> jar_path]>>

\* a task that is done: it holds its result, or the exception that left it
DoneTask(jar_path, outcome) ==
    [jar_path |-> jar_path, state |-> IF outcome.raised THEN "raised" ELSE "done",
     result |-> outcome.value]

\* an exception left one of the tasks: gather raises it
SomeTaskRaised(ts) == \E i \in DOMAIN ts : ts[i].state = "raised"

\* a wait that returns with the first task that is done
AllTasksDone_first(ts) == ts = <<>> \/ \E i \in DOMAIN ts : ts[i].state = "done"

\* asyncio.gather returns once every task is done
AllTasksDone(ts) == \A i \in DOMAIN ts : ts[i].state = "done"

\* the test `is not None` for the truth of the list
IsTruthy_not_none(list) == TRUE

\* `if jar_results:` -- a list is true when it is not empty
IsTruthy(list) == list # <<>>

\* main, lines 198-201: no -j, scan the directory
TextMainDirectory ==
    /\ prog = "text" /\ pc = "main"
    /\ args.jar = None
    /\ out' = Append(out, [kind |-> "scanning_dir"])
    /\ pc' = "find"
    /\ UNCHANGED <<pkgVars, javaVars, prog, args, fs, coordVars, idx, jar_to_matches, reportVars, exit_status>>

\* process_jar_files, lines 131-133
ProcessJarFilesFind ==
    /\ prog = "text" /\ pc = "find"
    /\ jar_files' = find_jar_files(fs.walk)
    /\ out' = Append(out, [kind |-> "found_jars", n |-> Len(jar_files')])
    /\ pc' = "dispatch"
    /\ UNCHANGED <<pkgVars, javaVars, prog, args, fs, tasks, results, idx, jar_to_matches, reportVars, exit_status>>

\* process_jar_files, line 139: one task per enumerated archive
ProcessJarFilesDispatch ==
    /\ prog = "text" /\ pc = "dispatch"
    /\ tasks' = [i \in DOMAIN jar_files |->
                    [jar_path |-> jar_files[i], state |-> "pending", result |-> None]]
    /\ pc' = "gather"
    /\ UNCHANGED <<pkgVars, javaVars, prog, args, fs, jar_files, results, idx, jar_to_matches, reportVars,
                   out, exit_status>>

\* one task created at line 139 runs scan_jar_file_for_text to its end
ScanTextTask(i) ==
    /\ prog = "text" /\ pc = "gather"
    /\ tasks[i].state = "pending"
    /\ LET jar_path == tasks[i].jar_path
           jar == fs.file[jar_path]
           outcome == scan_text_task(jar_path, jar, args.search_text,
                                     args.case_sensitive, args.binary, args.deep)
       IN  /\ tasks' = [tasks EXCEPT ![i] = DoneTask(jar_path, outcome)]
           /\ out' = out \o ScanErrors(jar_path, jar, outcome)
    /\ UNCHANGED <<pkgVars, javaVars, prog, pc, args, fs, jar_files, results, idx, jar_to_matches, reportVars,
                   exit_status>>

\* process_jar_files, line 142: gather returns the results in task order, or
\* raises the exception of a task, which then leaves main
ProcessJarFilesGather ==
    /\ prog = "text" /\ pc = "gather"
    /\ IF SomeTaskRaised(tasks)
       THEN pc' = "raised" /\ UNCHANGED <<results, idx>>
       ELSE /\ AllTasksDone(tasks)
            /\ results' = [i \in DOMAIN tasks |-> tasks[i].result]
            /\ idx' = 1
            /\ pc' = "merge"
    /\ UNCHANGED <<pkgVars, javaVars, prog, args, fs, jar_files, tasks, jar_to_matches, reportVars, out, exit_status>>

\* process_jar_files, lines 145-148: one iteration of the aggregation loop
ProcessJarFilesMerge ==
    /\ prog = "text" /\ pc = "merge"
    /\ idx <= Len(results)
    /\ jar_to_matches' = IF IsTruthy(results[idx])
                         THEN DictSet(jar_to_matches, jar_files[idx], results[idx])
                         ELSE jar_to_matches
    /\ idx' = idx + 1
    /\ UNCHANGED <<pkgVars, javaVars, prog, pc, args, fs, coordVars, reportVars, out, exit_status>>

\* process_jar_files, line 150: return jar_to_matches
ProcessJarFilesReturn ==
    /\ prog = "text" /\ pc = "merge"
    /\ idx > Len(results)
    /\ pc' = "report"
    /\ UNCHANGED <<pkgVars, javaVars, prog, args, fs, coordVars, idx, jar_to_matches, reportVars, out, exit_status>>

\* ------------------------------------------------------------------------
\* jar_text_scanner.py: main
\* ------------------------------------------------------------------------

\* main, lines 188-192: -j names a path that does not exist
TextMainMissingJar ==
    /\ prog = "text" /\ pc = "main"
    /\ args.jar # None
    /\ ~Exists(args.jar)
    /\ out' = Append(out, [kind |-> "error_not_found", jar_path |-> args.jar])
    /\ pc' = "returned"
    /\ UNCHANGED <<pkgVars, javaVars, prog, args, fs, coordVars, idx, jar_to_matches, reportVars, exit_status>>

\* main, lines 188-197: -j names an archive, which is scanned
TextMainSpecificJar ==
    /\ prog = "text" /\ pc = "main"
    /\ args.jar # None
    /\ Exists(args.jar)
    /\ LET jar_path == args.jar
           jar == fs.file[jar_path]
           outcome == scan_text_task(jar_path, jar, args.search_text,
                                     args.case_sensitive, args.binary, args.deep)
           res == outcome.value
       IN  /\ out' = <<[kind |-> "scanning_jar", jar_path |-> jar_path]>>
                     \o ScanErrors(jar_path, jar, outcome)
           /\ IF outcome.raised
              THEN pc' = "raised" /\ UNCHANGED jar_to_matches
              ELSE /\ jar_to_matches' = IF IsTruthy(res) THEN <<[k |-> jar_path, v |-> res]>>
                                        ELSE <<>>
                   /\ pc' = "report"
    /\ UNCHANGED <<pkgVars, javaVars, prog, args, fs, coordVars, idx, reportVars, exit_status>>

\* main, lines 204-218: the head of the report
TextReport ==
    /\ prog = "text" /\ pc = "report"
    /\ IF jar_to_matches = <<>>
       THEN /\ out' = out \o <<[kind |-> "search_results"], [kind |-> "no_occurrences"]>>
            /\ pc' = "returned"
            /\ UNCHANGED <<idx, reportVars>>
       ELSE /\ out' = Append(out, [kind |-> "search_results"])
            /\ total_matches' = 0
            /\ displayed_matches' = 0
            /\ total_jar_count' = Len(jar_to_matches)
            /\ idx' = 1
            /\ pc' = "loop"
    /\ UNCHANGED <<pkgVars, javaVars, prog, args, fs, coordVars, jar_to_matches, exit_status>>

\* line 227
display_count(matches, limit_per_jar) == Min(Len(matches), limit_per_jar)

\* lines 228-234: the match lines of one JAR
MatchLines(matches, n) ==
    [i \in 1..Len(Slice(matches, 0, n)) |-> [kind |-> "match", rec |-> matches[i]]]

\* the notice with >= for >
MoreNotice_ge(matches, limit_per_jar) ==
    IF Len(matches) >= limit_per_jar
    THEN <<[kind |-> "more", n |-> Len(matches) - limit_per_jar]>>
    ELSE <<>>

\* lines 237-238: the truncation notice of one JAR
MoreNotice(matches, limit_per_jar) ==
    IF Len(matches) > limit_per_jar
    THEN <<[kind |-> "more", n |-> Len(matches) - limit_per_jar]>>
    ELSE <<>>

\* line 247
remaining_jars(jar_path) ==
    total_jar_count - (IndexOf(DictKeys(jar_to_matches), jar_path) + 1)

\* lines 248-250: the notice printed when the total limit is reached
LimitNotice(remaining) ==
    IF remaining > 0 THEN <<[kind |-> "limit_reached", n |-> remaining]>> ELSE <<>>

\* line 246
limit_reached(displayed, total_limit) == displayed >= total_limit

\* main, lines 220-251: one iteration of the loop over the sorted JAR paths
TextReportJar ==
    /\ prog = "text" /\ pc = "loop"
    /\ LET order == Sorted(DictKeys(jar_to_matches))
           jar_path == order[idx]
           matches == DictGet(jar_to_matches, jar_path)
           shown == display_count(matches, args.limit)
           displayed == displayed_matches + shown
           stop == limit_reached(displayed, args.total_limit)
       IN  /\ total_matches' = total_matches + Len(matches)
           /\ displayed_matches' = displayed
           /\ out' = out
                     \o <<[kind |-> "jar", jar_path |-> jar_path, n |-> Len(matches)]>>
                     \o MatchLines(matches, shown)
                     \o MoreNotice(matches, args.limit)
                     \o <<[kind |-> "blank"]>>
                     \o (IF stop THEN LimitNotice(remaining_jars(jar_path)) ELSE <<>>)
           /\ IF stop \/ idx = Len(order)
              THEN pc' = "summary" /\ idx' = idx
              ELSE pc' = "loop" /\ idx' = idx + 1
    /\ UNCHANGED <<pkgVars, javaVars, prog, args, fs, coordVars, jar_to_matches, total_jar_count, exit_status>>

\* main, lines 253-255: the summary
TextSummary ==
    /\ prog = "text" /\ pc = "summary"
    /\ out' = out
              \o <<[kind |-> "summary", matches |-> total_matches, jars |-> total_jar_count]>>
              \o (IF displayed_matches < total_matches
                  THEN <<[kind |-> "displayed", shown |-> displayed_matches,
                          matches |-> total_matches]>>
                  ELSE <<>>)
    /\ pc' = "returned"
    /\ UNCHANGED <<pkgVars, javaVars, prog, args, fs, coordVars, idx, jar_to_matches, reportVars, exit_status>>

\* lines 258-260: asyncio.run(main()) returns and the interpreter exits, with
\* status 1 when an exception left main
TextExit ==
    /\ prog = "text" /\ pc \in {"returned", "raised"}
    /\ pc' = "exited"
    /\ exit_status' = IF pc = "raised" THEN 1 ELSE 0
    /\ UNCHANGED <<pkgVars, javaVars, prog, args, fs, coordVars, idx, jar_to_matches, reportVars, out>>

\* ------------------------------------------------------------------------
\* jar_package_scanner.py: scan_jar_file
\* ------------------------------------------------------------------------

DotJava == <<46, 106, 97, 118, 97>>

\* os.path.dirname
Dirname(path) ==
    LET slashes == {i \in DOMAIN path : path[i] = 47}
        last == IF slashes = {} THEN 0 ELSE CHOOSE i \in slashes : \A j \in slashes : j <= i
        head == SubSeq(path, 1, last)
        kept == {i \in DOMAIN head : head[i] # 47}
    IN  IF kept = {} THEN head
        ELSE SubSeq(head, 1, CHOOSE i \in kept : \A j \in kept : j <= i)

\* package_path.replace('/', '.')
SlashToDot(s) == [i \in DOMAIN s |-> IF s[i] = 47 THEN 46 ELSE s[i]]

\* [a-zA-Z0-9_.]
IsPackageChar(c) ==
    \/ c >= 97 /\ c <= 122
    \/ c >= 65 /\ c <= 90
    \/ c >= 48 /\ c <= 57
    \/ c = 95
    \/ c = 46

\* the first position from i on that holds no white space, Len + 1 if none
SkipSpaces(text, i) ==
    LET stops == {j \in i..Len(text) : ~IsSpace(text[j])}
    IN  IF stops = {} THEN Len(text) + 1 ELSE CHOOSE j \in stops : \A k \in stops : j <= k

\* the first position from i on that holds no [a-zA-Z0-9_.], Len + 1 if none
SkipPackageChars(text, i) ==
    LET stops == {j \in i..Len(text) : ~IsPackageChar(text[j])}
    IN  IF stops = {} THEN Len(text) + 1 ELSE CHOOSE j \in stops : \A k \in stops : j <= k

RECURSIVE FindPackagesFrom(_, _)
\* the matches of package\s+([a-zA-Z0-9_.]+); that start at position i or later
FindPackagesFrom(text, i) ==
    LET keyword == <<112, 97, 99, 107, 97, 103, 101>>
        ws == i + Len(keyword)
        name == SkipSpaces(text, ws)
        semi == SkipPackageChars(text, name)
    IN  IF i > Len(text) THEN <<>>
        ELSE IF /\ SubSeq(text, i, Min(ws - 1, Len(text))) = keyword
                /\ name > ws
                /\ semi > name
                /\ semi <= Len(text)
                /\ text[semi] = 59
             THEN <<SubSeq(text, name, semi - 1)>> \o FindPackagesFrom(text, semi + 1)
             ELSE FindPackagesFrom(text, i + 1)

\* re.findall(r'package\s+([a-zA-Z0-9_.]+);', content)
find_packages(content) == FindPackagesFrom(content, 1)

\* `if package_name not in results:` -- results holds tuples
not_in_results(package_name, res) == ~PyIn(StrVal(package_name), TupleVals(res))

RECURSIVE add_packages(_, _, _)
\* lines 39-41: the loop over the declarations of one source file
add_packages(res, matches, jar_path) ==
    IF matches = <<>> THEN res
    ELSE add_packages(IF not_in_results(Head(matches), res)
                      THEN Append(res, <<Head(matches), jar_path>>)
                      ELSE res,
                      Tail(matches), jar_path)

\* lines 23-44: what one entry does to results
scan_package_entry(res, entry, jar_path) ==
    IF EndsWith(entry.name, DotClass)
    THEN LET package_path == Dirname(entry.name)
             package_name == SlashToDot(package_path)
         IN  IF package_path # <<>> /\ not_in_results(package_name, res)
             THEN Append(res, <<package_name, jar_path>>)
             ELSE res
    ELSE IF EndsWith(entry.name, DotJava)
         THEN IF entry.readable
              THEN add_packages(res, find_packages(DecodeUtf8Ignore(entry.content)), jar_path)
              ELSE res
         ELSE res

RECURSIVE scan_package_entries(_, _, _)
scan_package_entries(res, entries, jar_path) ==
    IF entries = <<>> THEN res
    ELSE scan_package_entries(scan_package_entry(res, Head(entries), jar_path),
                              Tail(entries), jar_path)

\* scan_jar_file(jar_path) on the archive jar found at jar_path
scan_jar_file(jar_path, jar) ==
    IF ~jar.valid THEN <<>> ELSE scan_package_entries(<<>>, jar.entries, jar_path)

\* the coroutine scan_jar_file: the handlers of lines 42 and 45 catch every
\* Exception, so it always returns results
scan_package_task(jar_path, jar) == Returned(scan_jar_file(jar_path, jar))

\* ------------------------------------------------------------------------
\* jar_package_scanner.py: the inputs the model draws from
\* ------------------------------------------------------------------------

Y_class == <<112, 47, 89, 46, 99, 108, 97, 115, 115>>          \* 'p/Y.class'

W_class == <<113, 47, 87, 46, 99, 108, 97, 115, 115>>          \* 'q/W.class'

V_class == <<114, 47, 115, 47, 86, 46, 99, 108, 97, 115, 115>> \* 'r/s/V.class'

Z_class == <<90, 46, 99, 108, 97, 115, 115>>                   \* 'Z.class'

S_java == <<112, 47, 83, 46, 106, 97, 118, 97>>                \* 'p/S.java'

T_java == <<84, 46, 106, 97, 118, 97>>                         \* 'T.java'

\* 'package p;\nclass S {}'
SourceP ==
    <<112, 97, 99, 107, 97, 103, 101, 32, 112, 59, 10, 99, 108, 97, 115, 115, 32, 83, 32, 123, 125>>

\* 'package  q;\npackage p;'
SourceQP ==
    <<112, 97, 99, 107, 97, 103, 101, 32, 32, 113, 59, 10, 112, 97, 99, 107, 97, 103, 101, 32, 112, 59>>

\* an archive with a broken central directory that holds a class
CorruptPackageJar == Archive(FALSE, <<Entry(X_class, <<>>, TRUE)>>)

PackageArchives ==
    { CorruptPackageJar,
      \* no classes and no sources
      Archive(TRUE, <<Entry(x_txt, <<97>>, TRUE), Entry(Z_class, <<>>, TRUE)>>),
      \* one class
      Archive(TRUE, <<Entry(V_class, <<>>, TRUE)>>),
      \* two classes of one package and a source that declares it
      Archive(TRUE, <<Entry(X_class, <<>>, TRUE), Entry(Y_class, <<>>, TRUE),
                      Entry(S_java, SourceP, TRUE)>>),
      \* a source with two declarations, an unreadable source and a class
      Archive(TRUE, <<Entry(T_java, SourceQP, TRUE), Entry(S_java, SourceP, FALSE),
                      Entry(W_class, <<>>, TRUE)>>) }

PackageFileSystems ==
    UNION { { [walk |-> w, file |-> f] :
                f \in { g \in [Range(w) -> PackageArchives \cup {PlainFile}] :
                          \A q \in Range(w) : (g[q] = PlainFile) <=> (q = n_txt) } } :
            w \in DirWalks }

InitPkg ==
    /\ prog = "pkg"
    /\ args = None
    /\ fs \in PackageFileSystems

\* ------------------------------------------------------------------------
\* jar_package_scanner.py: find_jar_files, process_jar_files, main
\* ------------------------------------------------------------------------

\* find_jar_files(directory) of jar_package_scanner.py
pkg_find_jar_files(walk) == SelectSeq(walk, IsJarName)

\* main, lines 96-101, and process_jar_files, lines 70-72
PkgFind ==
    /\ prog = "pkg" /\ pc = "main"
    /\ jar_files' = pkg_find_jar_files(fs.walk)
    /\ out' = out \o <<[kind |-> "scanning_dir"], [kind |-> "found_jars", n |-> Len(jar_files')]>>
    /\ pc' = "dispatch"
    /\ UNCHANGED <<textVars, pkgVars, javaVars, prog, args, fs, tasks, results, idx, exit_status>>

\* process_jar_files, line 78: one task per enumerated archive
PkgDispatch ==
    /\ prog = "pkg" /\ pc = "dispatch"
    /\ tasks' = [i \in DOMAIN jar_files |->
                    [jar_path |-> jar_files[i], state |-> "pending", result |-> None]]
    /\ pc' = "gather"
    /\ UNCHANGED <<textVars, pkgVars, javaVars, prog, args, fs, jar_files, results, idx,
                   out, exit_status>>

\* one task created at line 78 runs scan_jar_file to its end
ScanPackageTask(i) ==
    /\ prog = "pkg" /\ pc = "gather"
    /\ tasks[i].state = "pending"
    /\ LET jar_path == tasks[i].jar_path
           jar == fs.file[jar_path]
           outcome == scan_package_task(jar_path, jar)
       IN  /\ tasks' = [tasks EXCEPT ![i] = DoneTask(jar_path, outcome)]
           /\ out' = out \o ScanErrors(jar_path, jar, outcome)
    /\ UNCHANGED <<textVars, pkgVars, javaVars, prog, pc, args, fs, jar_files, results, idx,
                   exit_status>>

\* process_jar_files, line 81: gather returns the results in task order, or
\* raises the exception of a task, which then leaves main
PkgGather ==
    /\ prog = "pkg" /\ pc = "gather"
    /\ IF SomeTaskRaised(tasks)
       THEN pc' = "raised" /\ UNCHANGED <<results, idx>>
       ELSE /\ AllTasksDone(tasks)
            /\ results' = [i \in DOMAIN tasks |-> tasks[i].result]
            /\ idx' = 1
            /\ pc' = "merge"
    /\ UNCHANGED <<textVars, pkgVars, javaVars, prog, args, fs, jar_files, tasks, out, exit_status>>

\* the aggregation without the test of line 87
add_jar_always(d, package_name, jar_path) ==
    IF DictHas(d, package_name)
    THEN DictSet(d, package_name, Append(DictGet(d, package_name), jar_path))
    ELSE DictSet(d, package_name, <<jar_path>>)

\* lines 86-90: one (package_name, jar_path) pair enters package_to_jars
add_jar(d, package_name, jar_path) ==
    IF DictHas(d, package_name)
    THEN IF ~PyIn(StrVal(jar_path), StrVals(DictGet(d, package_name)))
         THEN DictSet(d, package_name, Append(DictGet(d, package_name), jar_path))
         ELSE d
    ELSE DictSet(d, package_name, <<jar_path>>)

RECURSIVE add_jar_results(_, _)
\* lines 85-90: the inner loop over the pairs of one task's result
add_jar_results(d, jar_results) ==
    IF jar_results = <<>> THEN d
    ELSE add_jar_results(add_jar(d, Head(jar_results)[1], Head(jar_results)[2]),
                         Tail(jar_results))

\* process_jar_files, lines 84-90: one iteration of the aggregation loop
PkgMerge ==
    /\ prog = "pkg" /\ pc = "merge"
    /\ idx <= Len(results)
    /\ package_to_jars' = add_jar_results(package_to_jars, results[idx])
    /\ idx' = idx + 1
    /\ UNCHANGED <<textVars, javaVars, jar_to_packages, prog, pc, args, fs, coordVars,
                   out, exit_status>>

\* process_jar_files, line 92: return package_to_jars
PkgReturn ==
    /\ prog = "pkg" /\ pc = "merge"
    /\ idx > Len(results)
    /\ pc' = "convert"
    /\ UNCHANGED <<textVars, pkgVars, javaVars, prog, args, fs, coordVars, idx, out, exit_status>>

RECURSIVE add_package_to_jars(_, _, _)
\* lines 106-109: one package name enters the list of each of its JARs
add_package_to_jars(d, package_name, jar_paths) ==
    IF jar_paths = <<>> THEN d
    ELSE LET jar_path == Head(jar_paths)
             d1 == IF ~DictHas(d, jar_path) THEN DictSet(d, jar_path, <<>>) ELSE d
         IN  add_package_to_jars(DictSet(d1, jar_path, Append(DictGet(d1, jar_path), package_name)),
                                 package_name, Tail(jar_paths))

RECURSIVE invert_packages(_, _)
\* lines 104-109
invert_packages(d, items) ==
    IF items = <<>> THEN d
    ELSE invert_packages(add_package_to_jars(d, Head(items).k, Head(items).v), Tail(items))

\* main, lines 103-109: package_to_jars becomes jar_to_packages
PkgConvert ==
    /\ prog = "pkg" /\ pc = "convert"
    /\ jar_to_packages' = invert_packages(<<>>, package_to_jars)
    /\ pc' = "report"
    /\ UNCHANGED <<textVars, javaVars, package_to_jars, prog, args, fs, coordVars, idx,
                   out, exit_status>>

RECURSIVE SortedList(_)
\* sorted(list) for a list of str that may hold a value more than once
SortedList(list) ==
    IF list = <<>> THEN <<>>
    ELSE LET m == CHOOSE i \in DOMAIN list : \A j \in DOMAIN list : ~StrLess(list[j], list[i])
         IN  <<list[m]>> \o SortedList([k \in 1..(Len(list) - 1) |->
                                           IF k < m THEN list[k] ELSE list[k + 1]])

RECURSIVE PackageBlocks(_)
\* lines 118-122: the lines printed for the JARs jar_paths
PackageBlocks(jar_paths) ==
    IF jar_paths = <<>> THEN <<>>
    ELSE LET names == SortedList(DictGet(jar_to_packages, Head(jar_paths)))
         IN  <<[kind |-> "jar", jar_path |-> Head(jar_paths)]>>
             \o [i \in DOMAIN names |-> [kind |-> "package", package_name |-> names[i]]]
             \o <<[kind |-> "blank"]>>
             \o PackageBlocks(Tail(jar_paths))

\* main, lines 111-127: the report and the summary
PkgReport ==
    /\ prog = "pkg" /\ pc = "report"
    /\ out' = out
              \o <<[kind |-> "header"]>>
              \o (IF jar_to_packages = <<>>
                  THEN <<[kind |-> "no_packages"]>>
                  ELSE PackageBlocks(Sorted(DictKeys(jar_to_packages))))
              \o <<[kind |-> "summary", packages |-> Len(package_to_jars),
                    jars |-> Len(jar_to_packages)]>>
    /\ pc' = "returned"
    /\ UNCHANGED <<textVars, pkgVars, javaVars, prog, args, fs, coordVars, idx, exit_status>>

\* lines 130-132: asyncio.run(main()) returns and the interpreter exits, with
\* status 1 when an exception left main
PkgExit ==
    /\ prog = "pkg" /\ pc \in {"returned", "raised"}
    /\ pc' = "exited"
    /\ exit_status' = IF pc = "raised" THEN 1 ELSE 0
    /\ UNCHANGED <<textVars, pkgVars, javaVars, prog, args, fs, coordVars, idx, out>>

\* ------------------------------------------------------------------------
\* java_text_searcher.py: JavaTextSearcher
\*
\* A source file on disk is [content, readable]: readable is whether open
\* succeeds.
\* ------------------------------------------------------------------------

\* bytes the text layer of a file reads and decodes at a time
\* (8192 in the interpreter, scaled down)
ChunkSize == 4

SourceFile(content, readable) == [content |-> content, readable |-> readable]

RECURSIVE FileLinesFrom(_, _, _)
\* the lines a text file yields from position i on, with universal newlines:
\* \n, \r and \r\n end a line and are read as \n; cur is the line so far
FileLinesFrom(text, i, cur) ==
    IF i > Len(text) THEN (IF cur = <<>> THEN <<>> ELSE <<cur>>)
    ELSE IF text[i] = 10 \/ text[i] = 13
         THEN LET skip == IF text[i] = 13 /\ i < Len(text) /\ text[i + 1] = 10 THEN 2 ELSE 1
              IN  <<Append(cur, 10)>> \o FileLinesFrom(text, i + skip, <<>>)
         ELSE FileLinesFrom(text, i + 1, Append(cur, text[i]))

\* `for line in f` over the whole text
FileLines(text) == FileLinesFrom(text, 1, <<>>)

\* _line_contains_text
line_contains_text(line, search_text, case_sensitive) ==
    IF case_sensitive THEN Contains(line, search_text)
    ELSE Contains(Lower(line), Lower(search_text))

RECURSIVE line_matches_from(_, _, _, _)
\* lines 92-94 and 99-101: the records of lines[i..]
line_matches_from(lines, i, search_text, case_sensitive) ==
    IF i > Len(lines) THEN <<>>
    ELSE (IF line_contains_text(lines[i], search_text, case_sensitive)
          THEN << <<i, Strip(lines[i])>> >>
          ELSE <<>>)
         \o line_matches_from(lines, i + 1, search_text, case_sensitive)

\* the position of the first byte that is not valid UTF-8, 0 if there is none
\* (contents are made of ASCII bytes and of bytes 0xF8..0xFF)
FirstInvalid(content) ==
    LET bad == {i \in DOMAIN content : ~IsAscii(content[i])}
    IN  IF bad = {} THEN 0 ELSE CHOOSE i \in bad : \A j \in bad : i <= j

EndsLine(line) == line[Len(line)] = 10

\* the lines read before the chunk with the first invalid byte is decoded:
\* the complete lines of the chunks before it
LinesBeforeError(content) ==
    LET good == ChunkSize * ((FirstInvalid(content) - 1) \div ChunkSize)
        lines == FileLines(SubSeq(content, 1, good))
    IN  SelectSeq(lines, EndsLine)

\* bytes.decode('latin-1'): every byte is the code point of its value
DecodeLatin1(content) == content

\* _search_file_sync(file_path) on the file found there
search_file_sync(file, search_text, case_sensitive) ==
    IF ~file.readable THEN <<>>
    ELSE IF FirstInvalid(file.content) = 0
         THEN line_matches_from(FileLines(file.content), 1, search_text, case_sensitive)
         ELSE line_matches_from(LinesBeforeError(file.content), 1, search_text, case_sensitive)
              \o line_matches_from(FileLines(DecodeLatin1(file.content)), 1,
                                   search_text, case_sensitive)

IsJavaName(file) == EndsWith(file, DotJava)

\* the coroutine search_file: _search_file_sync catches every Exception, and
\* so does the handler of lines 83-85, so it always returns (file_path, matches)
search_file(file_path, file, search_text, case_sensitive) ==
    Returned(<<file_path, search_file_sync(file, search_text, case_sensitive)>>)

\* _find_java_files_sync: the files os.walk lists whose name ends in .java
find_java_files_sync(walk) == SelectSeq(walk, IsJavaName)

A_java == <<65, 46, 106, 97, 118, 97>>                          \* 'A.java'

sub_C_java == <<115, 117, 98, 47, 67, 46, 106, 97, 118, 97>>    \* 'sub/C.java'

D_JAVA == <<68, 46, 74, 65, 86, 65>>                            \* 'D.JAVA'

\* what the source files hold
SourceFiles ==
    { \* unreadable
      SourceFile(<<97, 10>>, FALSE),
      \* empty
      SourceFile(<<>>, TRUE),
      \* 'b\n': no match for 'a'
      SourceFile(<<98, 10>>, TRUE),
      \* ' A\r\nb\n a': two matching lines
      SourceFile(<<32, 65, 13, 10, 98, 10, 32, 97>>, TRUE),
      \* 'a\nb\nbb\n' 0xFF 'a\n': not UTF-8, the invalid byte not in the first chunk
      SourceFile(<<97, 10, 98, 10, 98, 98, 10, 255, 97, 10>>, TRUE),
      \* 'b' 0xFF '\nb\n': not UTF-8, no match
      SourceFile(<<98, 255, 10, 98, 10>>, TRUE) }

JavaWalks == Orders({A_java, sub_C_java, D_JAVA})

\* every walk, with every choice of content for each .java file
JavaFileSystems ==
    UNION { { [walk |-> w, file |-> f] :
                f \in { g \in [Range(w) -> SourceFiles] :
                          D_JAVA \in Range(w) => g[D_JAVA] = SourceFile(<<97, 10>>, TRUE) } } :
            w \in JavaWalks }

JavaArgs == { [search_text |-> <<97>>, case_sensitive |-> cs] : cs \in BOOLEAN }

InitJava ==
    /\ prog = "java"
    /\ args \in JavaArgs
    /\ fs \in JavaFileSystems

\* main, line 179: find_java_files
JavaFind ==
    /\ prog = "java" /\ pc = "main"
    /\ java_files' = find_java_files_sync(fs.walk)
    /\ out' = out \o <<[kind |-> "searching_files"], [kind |-> "found_files", n |-> Len(java_files')]>>
    /\ pc' = "search"
    /\ UNCHANGED <<textVars, pkgVars, java_results, prog, args, fs, coordVars, idx, exit_status>>

\* search_all_files, lines 123-134: enumerate again when no file is known,
\* return {} when there is none, else one task per file
JavaSearchAllFiles ==
    /\ prog = "java" /\ pc = "search"
    /\ LET found == IF java_files = <<>> THEN find_java_files_sync(fs.walk) ELSE java_files
           again == IF java_files = <<>>
                    THEN <<[kind |-> "searching_files"], [kind |-> "found_files", n |-> Len(found)]>>
                    ELSE <<>>
       IN  /\ java_files' = found
           /\ IF found = <<>>
              THEN /\ out' = out \o again \o <<[kind |-> "no_files"]>>
                   /\ pc' = "display"
                   /\ tasks' = tasks
              ELSE /\ out' = out \o again \o <<[kind |-> "searching", n |-> Len(found)]>>
                   /\ pc' = "gather"
                   /\ tasks' = [i \in DOMAIN found |->
                                   [jar_path |-> found[i], state |-> "pending", result |-> None]]
    /\ UNCHANGED <<textVars, pkgVars, java_results, prog, args, fs, jar_files, results, idx,
                   exit_status>>

\* search_file, lines 74-85: one task runs _search_file_sync in the executor
JavaSearchTask(i) ==
    /\ prog = "java" /\ pc = "gather"
    /\ tasks[i].state = "pending"
    /\ tasks' = [tasks EXCEPT ![i] =
                    DoneTask(tasks[i].jar_path,
                             search_file(tasks[i].jar_path, fs.file[tasks[i].jar_path],
                                         args.search_text, args.case_sensitive))]
    /\ UNCHANGED <<textVars, pkgVars, javaVars, prog, pc, args, fs, jar_files, results, idx,
                   out, exit_status>>

\* search_all_files, line 137: gather returns the results in task order, or
\* raises the exception of a task, which then leaves main
JavaGather ==
    /\ prog = "java" /\ pc = "gather"
    /\ IF SomeTaskRaised(tasks)
       THEN pc' = "raised" /\ UNCHANGED <<results, idx>>
       ELSE /\ AllTasksDone(tasks)
            /\ results' = [i \in DOMAIN tasks |-> tasks[i].result]
            /\ idx' = 1
            /\ pc' = "merge"
    /\ UNCHANGED <<textVars, pkgVars, javaVars, prog, args, fs, jar_files, tasks, out, exit_status>>

\* search_all_files, lines 140-142: one iteration of the loop over the results
JavaMerge ==
    /\ prog = "java" /\ pc = "merge"
    /\ idx <= Len(results)
    /\ IF results[idx] = None
       THEN \* unpacking `file_path, matches` from None raises TypeError
            pc' = "raised" /\ UNCHANGED <<java_results, idx>>
       ELSE /\ java_results' = IF IsTruthy(results[idx][2])
                               THEN DictSet(java_results, results[idx][1], results[idx][2])
                               ELSE java_results
            /\ idx' = idx + 1
            /\ pc' = pc
    /\ UNCHANGED <<textVars, pkgVars, java_files, prog, args, fs, coordVars, out, exit_status>>

\* search_all_files, lines 144-149: the counts, return self.results
JavaSearchReturn ==
    /\ prog = "java" /\ pc = "merge"
    /\ idx > Len(results)
    /\ out' = out \o <<[kind |-> "completed"],
                       [kind |-> "found_matches", matches |-> SumLens(java_results),
                        files |-> Len(java_results)]>>
    /\ pc' = "display"
    /\ UNCHANGED <<textVars, pkgVars, javaVars, prog, args, fs, coordVars, idx, exit_status>>

RECURSIVE DisplayBlocks(_)
\* display_results, lines 157-162
DisplayBlocks(items) ==
    IF items = <<>> THEN <<>>
    ELSE <<[kind |-> "file", file_path |-> Head(items).k, n |-> Len(Head(items).v)]>>
         \o [i \in DOMAIN Head(items).v |-> [kind |-> "match", rec |-> Head(items).v[i]]]
         \o <<[kind |-> "rule"]>>
         \o DisplayBlocks(Tail(items))

\* main, line 181: display_results
JavaDisplay ==
    /\ prog = "java" /\ pc = "display"
    /\ out' = out \o (IF java_results = <<>> THEN <<[kind |-> "no_matches"]>>
                      ELSE DisplayBlocks(java_results))
    /\ pc' = "returned"
    /\ UNCHANGED <<textVars, pkgVars, javaVars, prog, args, fs, coordVars, idx, exit_status>>

\* lines 184-190: asyncio.run(main()) returns and the interpreter exits, with
\* status 1 when an exception left main
JavaExit ==
    /\ prog = "java" /\ pc \in {"returned", "raised"}
    /\ pc' = "exited"
    /\ exit_status' = IF pc = "raised" THEN 1 ELSE 0
    /\ UNCHANGED <<textVars, pkgVars, javaVars, prog, args, fs, coordVars, idx, out>>

Init ==
    /\ pc = "main"
    /\ jar_files = <<>>
    /\ tasks = <<>>
    /\ results = None
    /\ idx = 0
    /\ jar_to_matches = <<>>
    /\ package_to_jars = <<>>
    /\ jar_to_packages = <<>>
    /\ java_files = <<>>
    /\ java_results = <<>>
    /\ total_matches = 0
    /\ displayed_matches = 0
    /\ total_jar_count = 0
    /\ out = <<>>
    /\ exit_status = -1
    /\ (InitText \/ InitPkg \/ InitJava)

Next ==
    \/ TextMainDirectory
    \/ ProcessJarFilesFind
    \/ ProcessJarFilesDispatch
    \/ \E i \in DOMAIN tasks : ScanTextTask(i)
    \/ ProcessJarFilesGather
    \/ ProcessJarFilesMerge
    \/ ProcessJarFilesReturn
    \/ TextMainMissingJar
    \/ TextMainSpecificJar
    \/ TextReport
    \/ TextReportJar
    \/ TextSummary
    \/ TextExit
    \/ PkgFind
    \/ PkgDispatch
    \/ \E i \in DOMAIN tasks : ScanPackageTask(i)
    \/ PkgGather
    \/ PkgMerge
    \/ PkgReturn
    \/ PkgConvert
    \/ PkgReport
    \/ PkgExit
    \/ JavaFind
    \/ JavaSearchAllFiles
    \/ \E i \in DOMAIN tasks : JavaSearchTask(i)
    \/ JavaGather
    \/ JavaMerge
    \/ JavaSearchReturn
    \/ JavaDisplay
    \/ JavaExit

Spec == Init /\ [][Next]_vars

\* ------------------------------------------------------------------------
\* Properties of the JAR text scanner's report
\* ------------------------------------------------------------------------

\* positions of the printed lines of one kind
LinesOfKind(kind) == {i \in DOMAIN out : out[i].kind = kind}

\* C1: the number of match lines printed in the whole report never exceeds
\* the total limit.
C1_DisplayedWithinTotalLimit ==
    prog = "text" =>
        /\ Cardinality(LinesOfKind("match")) <= args.total_limit
        /\ displayed_matches <= args.total_limit

\* C2: the number of matches the summary line states is the number of
\* matches of all the JARs of the scan result.
C2_SummaryCountsAllMatches ==
    prog = "text" =>
        \A i \in LinesOfKind("summary") : out[i].matches = SumLens(jar_to_matches)

\* C3: when the loop over the JARs has ended, the "more JAR files not shown"
\* notice is printed exactly when JARs remain after the last one visited in
\* sorted order, and states their number.
C3_RemainingJarsNotice ==
    (prog = "text" /\ pc = "summary") =>
        LET unshown == Len(jar_to_matches) - idx
        IN  /\ Cardinality(LinesOfKind("jar")) = idx
            /\ IF unshown > 0
               THEN /\ limit_reached(displayed_matches, args.total_limit)
                    /\ Cardinality(LinesOfKind("limit_reached")) = 1
                    /\ \A i \in LinesOfKind("limit_reached") : out[i].n = unshown
               ELSE LinesOfKind("limit_reached") = {}

\* C5: when the archive named with -j does not exist, the process prints the
\* error only and ends with a status other than zero.
C5_MissingJarExitsNonZero ==
    (prog = "text" /\ pc = "exited" /\ args.jar # None /\ ~Exists(args.jar)) =>
        /\ out = <<[kind |-> "error_not_found", jar_path |-> args.jar]>>
        /\ jar_to_matches = <<>>
        /\ exit_status # 0

\* the lines printed for the JAR whose heading is line i: up to its blank line
BlockOf(i) ==
    LET e == CHOOSE j \in (i + 1)..Len(out) :
                 /\ out[j].kind = "blank"
                 /\ \A k \in (i + 1)..(j - 1) : out[k].kind # "blank"
    IN  SubSeq(out, i + 1, e - 1)

\* C6: for every JAR visited, with N matches and the per-JAR limit L, the
\* report shows the first min(N, L) records in extraction order, followed by
\* a notice of N - L more matches exactly when L < N.
C6_PerJarTruncation ==
    prog = "text" =>
        \A i \in LinesOfKind("jar") :
            LET matches == DictGet(jar_to_matches, out[i].jar_path)
                N == Len(matches)
                L == args.limit
                shown == IF L < N THEN L ELSE N
            IN  /\ out[i].n = N
                /\ BlockOf(i) =
                       [k \in 1..shown |-> [kind |-> "match", rec |-> matches[k]]]
                       \o (IF L < N THEN <<[kind |-> "more", n |-> N - L]>> ELSE <<>>)

\* a JAR with more matches than the limit was reported, with lines shown
C6_Witness ==
    /\ prog = "text" /\ args.limit > 0
    /\ \E i \in LinesOfKind("more") : out[i].n > 0
    /\ \E i \in LinesOfKind("jar") : out[i].n <= args.limit

\* the records of the scan result
AllRecords == UNION {Range(jar_to_matches[i].v) : i \in DOMAIN jar_to_matches}

\* the zero-length members of the archive at a path that the scan reads
ZeroLengthNames(jar_path) ==
    {e.name : e \in {x \in Range(fs.file[jar_path].entries) : x.readable /\ x.content = <<>>}}

\* C10 as stated: no record of the scan result comes from a zero-length entry.
C10_ZeroLengthNeverMatches ==
    prog = "text" => \A rec \in AllRecords : rec[1] \notin ZeroLengthNames(rec[2])

\* C10: no record of the scan result comes from a zero-length entry, in text
\* search mode for every search text and in binary search mode for every
\* search text that is not empty.
C10_ZeroLengthNeverMatchesNonEmpty ==
    (prog = "text" /\ (~args.binary \/ args.search_text # <<>>)) =>
        \A rec \in AllRecords : rec[1] \notin ZeroLengthNames(rec[2])

\* an archive with a zero-length text entry was scanned for the empty string
\* in text mode and other entries of it matched
C10_Witness ==
    /\ prog = "text" /\ pc = "report"
    /\ args.jar # None /\ ~args.binary /\ args.search_text = <<>>
    /\ \E e \in Range(fs.file[args.jar].entries) :
           e.readable /\ e.content = <<>> /\ is_target_file(e.name, FALSE)
    /\ AllRecords # {}

\* ------------------------------------------------------------------------
\* Properties of the scan tasks and of the coordinators
\* ------------------------------------------------------------------------

\* the task results of the tasks that are done
DoneTasks == {i \in DOMAIN tasks : tasks[i].state = "done"}

\* C4: the list a package scan task returns holds no (package name, archive
\* path) pair twice.
C4_NoDuplicatePairs ==
    prog = "pkg" =>
        \A i \in DoneTasks :
            \A a, b \in DOMAIN tasks[i].result :
                a # b => tasks[i].result[a] # tasks[i].result[b]

\* the archive at a path opens as a ZIP container
IsValidJar(jar_path) == fs.file[jar_path].valid

\* process_jar_files of the text scanner has returned
TextBatchReturned ==
    prog = "text" /\ args.jar = None /\ pc \in {"report", "loop", "summary", "returned", "exited"}

\* process_jar_files of the package scanner has returned
PkgBatchReturned == prog = "pkg" /\ pc \in {"convert", "report", "returned", "exited"}

RECURSIVE TextResultOf(_)
\* the result map of a text scan of the archives jar_paths, in their order
TextResultOf(jar_paths) ==
    IF jar_paths = <<>> THEN <<>>
    ELSE LET jar_path == Head(jar_paths)
             res == scan_jar_file_for_text(jar_path, fs.file[jar_path], args.search_text,
                                           args.case_sensitive, args.binary, args.deep)
         IN  (IF res # <<>> THEN <<[k |-> jar_path, v |-> res]>> ELSE <<>>)
             \o TextResultOf(Tail(jar_paths))

RECURSIVE PkgResultOf(_, _)
\* the result map of a package scan of the archives jar_paths, in their order
PkgResultOf(d, jar_paths) ==
    IF jar_paths = <<>> THEN d
    ELSE PkgResultOf(add_jar_results(d, scan_jar_file(Head(jar_paths), fs.file[Head(jar_paths)])),
                     Tail(jar_paths))

\* the archive paths named in the result map of the package scan
PkgResultJars == UNION {Range(package_to_jars[i].v) : i \in DOMAIN package_to_jars}

\* C7: in a batch scan an archive that does not open as a ZIP container gives
\* no record and is absent from the result, the run goes on to its end, and
\* the result is the one of the batch without the corrupt archives.
C7_CorruptJarIsolated ==
    /\ prog \in {"text", "pkg"} =>
           /\ pc # "raised" /\ exit_status \in {-1, 0}
           /\ ~SomeTaskRaised(tasks)
           /\ \A i \in DoneTasks : ~IsValidJar(tasks[i].jar_path) => tasks[i].result = <<>>
    /\ TextBatchReturned =>
           /\ \A p \in Range(jar_files) : ~IsValidJar(p) => ~DictHas(jar_to_matches, p)
           /\ jar_to_matches = TextResultOf(SelectSeq(jar_files, IsValidJar))
    /\ PkgBatchReturned =>
           /\ \A p \in Range(jar_files) : ~IsValidJar(p) => p \notin PkgResultJars
           /\ package_to_jars = PkgResultOf(<<>>, SelectSeq(jar_files, IsValidJar))

\* a text scan of a batch with a corrupt archive has returned matches of
\* another archive and the run has ended
C7_Witness ==
    /\ TextBatchReturned /\ pc = "exited"
    /\ \E p \in Range(jar_files) : ~IsValidJar(p)
    /\ jar_to_matches # <<>>

\* the coordinator is past the dispatch of the tasks
Dispatched == pc \notin {"main", "find", "dispatch", "raised"} /\ exit_status # 1

\* the merge loop of the coordinator has started
MergeStarted == pc # "gather" /\ Dispatched

\* C8: the coordinator creates exactly one task per enumerated archive, the
\* merge starts only when every task is done, and the reporter runs only on
\* the merge of all the task results.
C8_JoinBeforeMerge ==
    ((prog = "text" /\ args.jar = None) \/ prog = "pkg") =>
        /\ Dispatched =>
               /\ Len(tasks) = Len(jar_files)
               /\ \A i \in DOMAIN tasks : tasks[i].jar_path = jar_files[i]
        /\ (MergeStarted \/ jar_to_matches # <<>> \/ package_to_jars # <<>> \/ results # None) =>
               /\ Dispatched
               /\ DoneTasks = DOMAIN tasks
        /\ TextBatchReturned =>
               \A i \in DOMAIN tasks :
                   tasks[i].result # <<>> =>
                       /\ DictHas(jar_to_matches, tasks[i].jar_path)
                       /\ DictGet(jar_to_matches, tasks[i].jar_path) = tasks[i].result
        /\ PkgBatchReturned =>
               \A i \in DOMAIN tasks : \A r \in Range(tasks[i].result) :
                   /\ DictHas(package_to_jars, r[1])
                   /\ r[2] \in Range(DictGet(package_to_jars, r[1]))

\* the merge of a batch of two or more tasks is about to start
C8_Witness ==
    /\ prog = "text" /\ pc = "merge" /\ idx = 1
    /\ Len(tasks) >= 2
    /\ \E i \in DOMAIN tasks : tasks[i].result # <<>>

\* search_all_files of the Java searcher has returned
JavaBatchReturned == prog = "java" /\ pc \in {"display", "returned", "exited"}

\* the keys of a dict are distinct and none maps to an empty list
WellFormedResult(d) ==
    /\ \A i, j \in DOMAIN d : i # j => d[i].k # d[j].k
    /\ \A i \in DOMAIN d : d[i].v # <<>>

\* C9: after a batch text scan the keys of the result map are exactly the
\* enumerated paths whose task produced a record, and no key maps to an
\* empty list.
C9_KeysAreSourcesWithMatches ==
    /\ TextBatchReturned =>
           /\ WellFormedResult(jar_to_matches)
           /\ Range(DictKeys(jar_to_matches)) =
                  {tasks[i].jar_path : i \in {j \in DOMAIN tasks : tasks[j].result # <<>>}}
    /\ JavaBatchReturned =>
           /\ WellFormedResult(java_results)
           /\ Range(DictKeys(java_results)) =
                  {tasks[i].jar_path : i \in {j \in DOMAIN tasks : tasks[j].result[2] # <<>>}}
           /\ \A i \in DOMAIN tasks : tasks[i].jar_path = java_files[i]

\* a search of two or more Java files has returned, one file with matches
\* and one without
C9_Witness ==
    /\ JavaBatchReturned
    /\ \E i, j \in DOMAIN tasks : tasks[i].result[2] # <<>> /\ tasks[j].result[2] = <<>>
    /\ java_results # <<>>

\* ------------------------------------------------------------------------
\* Properties of the scan of one archive
\* ------------------------------------------------------------------------

\* the records the scan of the archive named with -j returned
SingleJarRecords ==
    IF DictHas(jar_to_matches, args.jar) THEN DictGet(jar_to_matches, args.jar) ELSE <<>>

\* the 0-based positions of content at which the byte sequence sub starts
Occurrences(content, sub) ==
    {p \in 0..(Len(content) - Len(sub)) : \A k \in 1..Len(sub) : content[p + k] = sub[k]}

\* 'Binary match at position '
BinaryMatchPrefix ==
    <<66, 105, 110, 97, 114, 121, 32, 109, 97, 116, 99, 104, 32, 97, 116,
      32, 112, 111, 115, 105, 116, 105, 111, 110, 32>>

\* C11: in binary search mode every entry read from the archive, whatever
\* its extension, whose bytes contain the encoded search text has exactly one
\* record in the result: it has line number 0 and a text that states the
\* position of the first occurrence, followed by a snippet that is not empty.
\* An entry whose bytes do not contain the sequence has no record.
C11_BinaryOneRecordPerEntry ==
    (prog = "text" /\ args.jar # None /\ Exists(args.jar) /\ args.binary
       /\ pc \notin {"main", "raised"} /\ fs.file[args.jar].valid) =>
        LET recs == SingleJarRecords
            sub == EncodeUtf8(args.search_text)
        IN  \A e \in {x \in Range(fs.file[args.jar].entries) : x.readable} :
                LET mine == {k \in DOMAIN recs : recs[k][1] = e.name}
                    occ == Occurrences(e.content, sub)
                IN  IF occ = {} THEN mine = {}
                    ELSE /\ Cardinality(mine) = 1
                         /\ \A k \in mine :
                                LET head == BinaryMatchPrefix
                                            \o Digits(CHOOSE p \in occ : \A q \in occ : p <= q)
                                            \o <<58, 32>>
                                IN  /\ recs[k][2] = args.jar
                                    /\ recs[k][3] = 0
                                    /\ Len(recs[k][4]) > Len(head)
                                    /\ SubSeq(recs[k][4], 1, Len(head)) = head

\* a binary search for 'a' has read an entry without a text extension that
\* holds 'a' twice, next to an entry that does not hold it, and has returned
\* records
C11_Witness ==
    /\ prog = "text" /\ pc = "report"
    /\ args.jar # None /\ args.binary /\ args.search_text = <<97>>
    /\ \E e \in Range(fs.file[args.jar].entries) :
           /\ e.readable /\ ~is_target_file(e.name, FALSE)
           /\ Cardinality(Occurrences(e.content, <<97>>)) >= 2
           /\ \E k \in DOMAIN SingleJarRecords : SingleJarRecords[k][1] = e.name
    /\ \E e \in Range(fs.file[args.jar].entries) :
           e.readable /\ Occurrences(e.content, <<97>>) = {}

\* an entry that can be read
IsReadable(entry) == entry.readable

\* the archive without the entries that cannot be read
WithoutUnreadable(jar) == Archive(jar.valid, SelectSeq(jar.entries, IsReadable))

\* the position of the entry called file_name in the listing of an archive
ListingIndex(jar, file_name) == CHOOSE i \in DOMAIN jar.entries : jar.entries[i].name = file_name

\* the records of a text scan of the archive at jar_path are those of the
\* archive without its unreadable entries, none comes from an unreadable
\* entry, and they are in the order of the listing
SiblingsKept(jar_path, recs) ==
    LET jar == fs.file[jar_path]
    IN  /\ recs = scan_jar_file_for_text(jar_path, WithoutUnreadable(jar), args.search_text,
                                         args.case_sensitive, args.binary, args.deep)
        /\ jar.valid =>
               /\ \A k \in DOMAIN recs :
                      \E e \in Range(jar.entries) : e.readable /\ e.name = recs[k][1]
               /\ \A a, b \in DOMAIN recs :
                      a < b => ListingIndex(jar, recs[a][1]) <= ListingIndex(jar, recs[b][1])

\* C12: an entry of an archive that cannot be read is skipped and the scan of
\* the archive goes on: the result holds the records of all the other
\* entries, those listed before it and those listed after it, in the order of
\* the listing, as if the entry were not in the archive (text scan and
\* package scan).
C12_FailingEntrySkipped ==
    /\ (prog = "text" /\ args.jar # None /\ Exists(args.jar) /\ pc \notin {"main", "raised"}) =>
           SiblingsKept(args.jar, SingleJarRecords)
    /\ prog = "text" =>
           \A i \in DoneTasks : SiblingsKept(tasks[i].jar_path, tasks[i].result)
    /\ prog = "pkg" =>
           \A i \in DoneTasks :
               tasks[i].result = scan_jar_file(tasks[i].jar_path,
                                               WithoutUnreadable(fs.file[tasks[i].jar_path]))

\* entry i of the archive is one the text scan opens and cannot read
FailsInTextScan(jar, i) ==
    ~jar.entries[i].readable /\ is_target_file(jar.entries[i].name, args.binary)

\* a text scan has returned records of an entry listed before and of an entry
\* listed after an entry that it could not read
C12_Witness ==
    /\ prog = "text" /\ pc = "report" /\ args.jar # None
    /\ LET jar == fs.file[args.jar]
           recs == SingleJarRecords
       IN  \E i \in DOMAIN jar.entries :
               /\ FailsInTextScan(jar, i)
               /\ \E k \in DOMAIN recs : ListingIndex(jar, recs[k][1]) < i
               /\ \E k \in DOMAIN recs : ListingIndex(jar, recs[k][1]) > i

\* ------------------------------------------------------------------------
\* Properties of the package report
\* ------------------------------------------------------------------------

\* the package names in the list that scan task i returned
PackagesOfTask(i) == {tasks[i].result[k][1] : k \in DOMAIN tasks[i].result}

\* the package report has been printed
PkgReported == prog = "pkg" /\ pc \in {"returned", "exited"} /\ exit_status # 1

\* C13: in the package report every archive whose task returned a package is
\* listed once, with each of its package names once; the summary states the
\* number of distinct package names of all the tasks and the number of
\* archives with a package, whatever pairs the tasks returned more than once.
C13_PackageReportUnique ==
    PkgReported =>
        LET withPackages == {i \in DOMAIN tasks : PackagesOfTask(i) # {}}
        IN  /\ \A i \in withPackages :
                   Cardinality({j \in LinesOfKind("jar") : out[j].jar_path = tasks[i].jar_path}) = 1
            /\ \A j \in LinesOfKind("jar") :
                   LET block == BlockOf(j)
                   IN  /\ \A a, b \in DOMAIN block :
                              /\ block[a].kind = "package"
                              /\ a # b => block[a].package_name # block[b].package_name
                       /\ \E i \in withPackages :
                              /\ tasks[i].jar_path = out[j].jar_path
                              /\ {block[a].package_name : a \in DOMAIN block} = PackagesOfTask(i)
            /\ Cardinality(LinesOfKind("summary")) = 1
            /\ \A j \in LinesOfKind("summary") :
                   /\ out[j].packages = Cardinality(UNION {PackagesOfTask(i) : i \in DOMAIN tasks})
                   /\ out[j].jars = Cardinality(withPackages)

\* a report was printed for two or more archives with packages, one of them
\* scanned by a task that returned the same pair more than once, and with a
\* package found in two archives
C13_Witness ==
    /\ PkgReported
    /\ \E i \in DOMAIN tasks :
           \E a, b \in DOMAIN tasks[i].result : a # b /\ tasks[i].result[a] = tasks[i].result[b]
    /\ \E i, j \in DOMAIN tasks : i # j /\ PackagesOfTask(i) \cap PackagesOfTask(j) # {}
    /\ Cardinality(LinesOfKind("jar")) >= 2

\* ------------------------------------------------------------------------
\* Properties of the search of one Java source file
\* ------------------------------------------------------------------------

\* C14: the list the search of one source file returns has strictly
\* increasing line numbers, so at most one record for each line, also when
\* the file is not valid UTF-8 and is read again as latin-1.
C14_OneRecordPerLine ==
    prog = "java" =>
        \A i \in DoneTasks :
            LET matches == tasks[i].result[2]
            IN  \A a, b \in DOMAIN matches : a < b => matches[a][1] < matches[b][1]

====
